---- MODULE Spec2Model ----
(***************************************************************************)
(* Model of app.py: the content fetcher with its headless-browser          *)
(* fallback, the three scrapers, the advisory generator, and the Streamlit *)
(* script (sidebar widgets, "Analyze Page" handler, results column).       *)
(*                                                                         *)
(* Text is a sequence of tokens; each token stands for a run of            *)
(* characters.  "Error:" and "Selenium " are the runs the code's prefix    *)
(* tests look for, QUOTE / BACKSLASH / NEWLINE are the characters          *)
(* json.dumps escapes.                                                     *)
(***************************************************************************)
EXTENDS Integers, Sequences, FiniteSets, TLC

VARIABLES url, tool, ai_enabled, session_state, pc, event, failure,
          fetched, advice, scraped, rendered, openBrowsers

vars == <<url, tool, ai_enabled, session_state, pc, event, failure,
          fetched, advice, scraped, rendered, openBrowsers>>

\* ------------------------------------------------------------------ text
QUOTE == "\""
BACKSLASH == "\\"
NEWLINE == "\n"

\* the prefixes the code tests for, and the prefixes it writes
ErrorTag == <<"Error:">>
SeleniumErrorTag == <<"Selenium ", "Error:">>
ErrorPrefix == ErrorTag \o <<" ">>
SeleniumErrorPrefix == SeleniumErrorTag \o <<" ">>
SkipPrefix == <<"Could not generate questions due to: ">>
Ellipsis == <<"...">>

\* str.startswith(prefix)
StartsWith(s, prefix) ==
    /\ Len(s) >= Len(prefix)
    /\ \A i \in 1..Len(prefix) : s[i] = prefix[i]

\* s[:n]
Take(s, n) == IF Len(s) <= n THEN s ELSE SubSeq(s, 1, n)

\* x in s
Contains(s, x) == \E i \in 1..Len(s) : s[i] = x

\* Python values that end up in a result dict
PyStr(s) == [str |-> s]
PyInt(n) == [int |-> n]
PyList(xs) == [list |-> xs]

\* ------------------------------------------------------------ environment
\* Bound on the number of browser processes tracked as still running.
MaxOpen == 2

Urls == {"https://example.com", "https://other.test"}
Tools == {"BeautifulSoup", "Selenium", "Scrapy"}

\* Response bodies / page sources the network can deliver.
Bodies ==
    { <<>>,
      <<"<title>", "<h1>", "<a>">>,
      <<"<h1>", "<a>", "<a>", "<a>", "<a>", "<h1>">>,
      <<"Error:", " text">>,
      <<"Selenium ", "Error:", " text">>,
      <<"text", QUOTE, BACKSLASH>> }

PageSources == { <<"<title>", "<h1>", "<a>">>, <<"Error:", " text">> }

\* str(e) of the exceptions the libraries raise
HttpErrorText(status) ==
    IF status = 403 THEN <<"403", " Client ", "Error:", " Forbidden">>
    ELSE <<"404", " Client ", "Error:", " Not Found">>
TimeoutText == <<"Read timed out.">>
WebDriverText == <<"Message: ", QUOTE, "unknown error", QUOTE, NEWLINE>>
NoSuchElementText == <<"Message: ", "no such element">>
ParserText == <<"parser failure">>
ModelText == <<"1. ", "question">>
NameErrorText == <<"name 'TempSpider' is not defined">>
OSErrorText == <<"No space left on device">>
SettingsErrorText == <<"settings failure">>

\* Outcome of requests.get + raise_for_status: status 0 is "no response"
\* (timeout, DNS failure, refused connection).
DirectEnvs ==
    [status : {200}, body : Bodies]
    \cup [status : {403, 404, 0}, body : {<<>>}]

\* Outcome of one browser session: launch, navigation, page, shutdown.
BrowserEnvs ==
    [launch : {FALSE}, nav : {FALSE}, src : {<<>>}, quit : {TRUE}]
    \cup [launch : {TRUE}, nav : {FALSE}, src : {<<>>}, quit : BOOLEAN]
    \cup [launch : {TRUE}, nav : {TRUE}, src : PageSources, quit : BOOLEAN]

\* ---------------------------------------------------------- selenium_fetch
NoBrowser == [kind |-> "none", val |-> <<>>, failed |-> FALSE,
              launched |-> 0, quits |-> 0]

\* selenium_fetch with the shutdown on the success path only (no finally)
selenium_fetch_quit_on_success_only(u, b) ==
    LET launched == IF b.launch THEN 1 ELSE 0
        quits    == IF b.launch /\ b.nav THEN 1 ELSE 0
    IN  IF b.launch /\ b.nav
        THEN IF b.quit
             THEN [kind |-> "return", val |-> b.src, failed |-> FALSE,
                   launched |-> launched, quits |-> quits]
             ELSE [kind |-> "return",
                   val |-> SeleniumErrorPrefix \o WebDriverText,
                   failed |-> TRUE, launched |-> launched, quits |-> quits]
        ELSE [kind |-> "return",
              val |-> SeleniumErrorPrefix \o WebDriverText,
              failed |-> TRUE, launched |-> launched, quits |-> quits]

\* try: Chrome(); get; return page_source / except: "Selenium Error: ..." /
\* finally: quit() when the driver exists.  An exception raised by quit()
\* in the finally block replaces the pending return value.
selenium_fetch(u, b) ==
    LET launched == IF b.launch THEN 1 ELSE 0
        pending  == IF b.launch /\ b.nav
                    THEN [val |-> b.src, failed |-> FALSE]
                    ELSE [val |-> SeleniumErrorPrefix \o WebDriverText,
                          failed |-> TRUE]
        quits    == launched
    IN  IF b.launch /\ ~b.quit
        THEN [kind |-> "raise", val |-> WebDriverText, failed |-> TRUE,
              launched |-> launched, quits |-> quits]
        ELSE [kind |-> "return", val |-> pending.val,
              failed |-> pending.failed,
              launched |-> launched, quits |-> quits]

\* -------------------------------------------------------- get_page_content
NoFetch == [kind |-> "none", val |-> <<>>, failed |-> FALSE, status |-> 0,
            fallbackCalls |-> 0, sf |-> NoBrowser]

\* get_page_content falling back on every HTTPError, not only on 403
get_page_content_any_http_error(u, d, b) ==
    IF d.status = 200
    THEN [kind |-> "return", val |-> d.body, failed |-> FALSE,
          status |-> 200, fallbackCalls |-> 0, sf |-> NoBrowser]
    ELSE IF d.status = 0
    THEN [kind |-> "return", val |-> ErrorPrefix \o TimeoutText,
          failed |-> TRUE, status |-> 0, fallbackCalls |-> 0,
          sf |-> NoBrowser]
    ELSE LET r == selenium_fetch(u, b)
         IN  [kind |-> r.kind, val |-> r.val, failed |-> r.failed,
              status |-> d.status, fallbackCalls |-> 1, sf |-> r]

\* try: get; raise_for_status; return text
\* except HTTPError: 403 -> return selenium_fetch(url), else "Error: ..."
\* except Exception: "Error: ..."
\* A raise inside the HTTPError handler is not caught by the sibling clause.
get_page_content(u, d, b) ==
    IF d.status = 200
    THEN [kind |-> "return", val |-> d.body, failed |-> FALSE,
          status |-> 200, fallbackCalls |-> 0, sf |-> NoBrowser]
    ELSE IF d.status = 403
    THEN LET r == selenium_fetch(u, b)
         IN  [kind |-> r.kind, val |-> r.val, failed |-> r.failed,
              status |-> 403, fallbackCalls |-> 1, sf |-> r]
    ELSE IF d.status = 0
    THEN [kind |-> "return", val |-> ErrorPrefix \o TimeoutText,
          failed |-> TRUE, status |-> 0, fallbackCalls |-> 0,
          sf |-> NoBrowser]
    ELSE [kind |-> "return",
          val |-> ErrorPrefix \o HttpErrorText(d.status),
          failed |-> TRUE, status |-> d.status, fallbackCalls |-> 0,
          sf |-> NoBrowser]

\* ------------------------------------------------------------- bs4_scraper
\* Markup tokens: "<title>" is <title>T</title>, "<h1>" is <h1>A</h1>,
\* "<a>" is <a href="/x">x</a>; every other token is a text node.
TextOf(tok) ==
    IF tok = "<title>" THEN "T"
    ELSE IF tok = "<h1>" THEN "A"
    ELSE IF tok = "<a>" THEN "x"
    ELSE tok

IsAnchor(tok) == tok = "<a>"

Href(tok) == PyStr(<<"/x">>)

RECURSIVE MapHref(_)
MapHref(s) == IF s = <<>> THEN <<>> ELSE <<Href(Head(s))>> \o MapHref(Tail(s))

\* [a['href'] for a in soup.find_all('a', href=True)]
AllLinks(body) == MapHref(SelectSeq(body, IsAnchor))

\* [a['href'] for a in h.find_all_next('a', href=True, limit=3)]
LinksAfter(body, i) ==
    MapHref(Take(SelectSeq(SubSeq(body, i + 1, Len(body)), IsAnchor), 3))

RECURSIVE HeadersFrom(_, _)
HeadersFrom(body, i) ==
    IF i > Len(body) THEN <<>>
    ELSE IF body[i] = "<h1>"
    THEN <<[text |-> PyStr(<<"A">>), tag |-> PyStr(<<"h1">>),
            links |-> PyList(LinksAfter(body, i))]>>
         \o HeadersFrom(body, i + 1)
    ELSE HeadersFrom(body, i + 1)

\* soup.get_text(separator=' ', strip=True)
RECURSIVE GetText(_)
GetText(body) ==
    IF body = <<>> THEN <<>>
    ELSE IF Len(body) = 1 THEN <<TextOf(body[1])>>
    ELSE <<TextOf(body[1]), " ">> \o GetText(Tail(body))

\* [:1000]; the bodies drawn here are shorter, so the slice keeps them whole
TextLimit == 1000

Parse(body) ==
    [title |-> IF Contains(body, "<title>") THEN PyStr(<<"T">>)
               ELSE PyStr(<<"No title">>),
     headers |-> PyList(HeadersFrom(body, 1)),
     all_links |-> PyList(AllLinks(body)),
     text |-> PyStr(Take(GetText(body), TextLimit) \o Ellipsis)]

NoResult == [absent |-> TRUE]

NoScrape == [kind |-> "none", by |-> "none", result |-> NoResult,
             fetch |-> NoFetch, parsed |-> FALSE, launched |-> 0,
             quits |-> 0, crawlRan |-> FALSE, startUrls |-> {},
             frameworkFailed |-> FALSE, fileCreated |-> FALSE,
             fileExists |-> FALSE]

\* bs4_scraper testing the "Error:" prefix only, as the Analyze handler does
bs4_scraper_error_prefix_only(u, d, b, parseOk) ==
    LET f == get_page_content(u, d, b)
        base == [NoScrape EXCEPT !.by = "BeautifulSoup", !.fetch = f,
                                 !.launched = f.sf.launched,
                                 !.quits = f.sf.quits]
    IN  IF f.kind = "raise"
        THEN [base EXCEPT !.kind = "raise"]
        ELSE IF StartsWith(f.val, ErrorTag)
        THEN [base EXCEPT !.kind = "return",
                          !.result = [error |-> PyStr(f.val)]]
        ELSE IF parseOk
        THEN [base EXCEPT !.kind = "return", !.parsed = TRUE,
                          !.result = Parse(f.val)]
        ELSE [base EXCEPT !.kind = "return", !.parsed = TRUE,
                          !.result = [error |-> PyStr(ParserText)]]

\* content = get_page_content(url) is outside the try block.
bs4_scraper(u, d, b, parseOk) ==
    LET f == get_page_content(u, d, b)
        base == [NoScrape EXCEPT !.by = "BeautifulSoup", !.fetch = f,
                                 !.launched = f.sf.launched,
                                 !.quits = f.sf.quits]
    IN  IF f.kind = "raise"
        THEN [base EXCEPT !.kind = "raise"]
        ELSE IF StartsWith(f.val, ErrorTag)
                \/ StartsWith(f.val, SeleniumErrorTag)
        THEN [base EXCEPT !.kind = "return",
                          !.result = [error |-> PyStr(f.val)]]
        ELSE IF parseOk
        THEN [base EXCEPT !.kind = "return", !.parsed = TRUE,
                          !.result = Parse(f.val)]
        ELSE [base EXCEPT !.kind = "return", !.parsed = TRUE,
                          !.result = [error |-> PyStr(ParserText)]]

\* -------------------------------------------------------- selenium_scraper
Pages == { [title |-> <<"T">>, text |-> <<"A", " ", "x">>, scripts |-> 2],
           [title |-> <<>>, text |-> <<>>, scripts |-> 0] }

\* stage: how far the session got ("launch", "nav", "extract" name the call
\* that raised; "ok" is a complete extraction)
ScraperEnvs ==
    [stage : {"launch"}, page : {CHOOSE p \in Pages : p.scripts = 0},
     quit : {TRUE}]
    \cup [stage : {"nav", "extract"},
          page : {CHOOSE p \in Pages : p.scripts = 0}, quit : BOOLEAN]
    \cup [stage : {"ok"}, page : Pages, quit : BOOLEAN]

selenium_scraper(u, e) ==
    LET launched == IF e.stage = "launch" THEN 0 ELSE 1
        base == [NoScrape EXCEPT !.by = "Selenium", !.launched = launched,
                                 !.quits = launched]
        pending ==
            IF e.stage = "ok"
            THEN [title |-> PyStr(e.page.title),
                  text |-> PyStr(Take(e.page.text, TextLimit) \o Ellipsis),
                  scripts |-> PyInt(e.page.scripts)]
            ELSE IF e.stage = "extract"
            THEN [error |-> PyStr(NoSuchElementText)]
            ELSE [error |-> PyStr(WebDriverText)]
    IN  IF launched = 1 /\ ~e.quit
        THEN [base EXCEPT !.kind = "raise"]
        ELSE [base EXCEPT !.kind = "return", !.result = pending]

\* ---------------------------------------------------------- scrapy_scraper
ScrapyEnvs == [tmp : BOOLEAN, process : BOOLEAN]

\* The spider source is only written to the scratch file; the name
\* TempSpider is never bound, so process.crawl(TempSpider) raises NameError
\* before any crawl is scheduled.  finally: unlink the scratch file.
scrapy_scraper(u, e) ==
    LET base == [NoScrape EXCEPT !.by = "Scrapy", !.kind = "return",
                                 !.fileCreated = e.tmp]
    IN  IF ~e.tmp
        THEN [base EXCEPT !.result = [error |-> PyStr(OSErrorText)]]
        ELSE IF ~e.process
        THEN [base EXCEPT !.result = [error |-> PyStr(SettingsErrorText)],
                          !.frameworkFailed = TRUE]
        ELSE [base EXCEPT !.result = [error |-> PyStr(NameErrorText)]]

\* --------------------------------------------------- generate_ai_questions
PromptLimit == 3000

NoAdvice == [kind |-> "none", invoked |-> FALSE, prompt |-> <<>>,
             val |-> <<>>]

generate_ai_questions(content, llmOk) ==
    IF StartsWith(content, ErrorTag)
    THEN [kind |-> "return", invoked |-> FALSE, prompt |-> <<>>,
          val |-> SkipPrefix \o content]
    ELSE [kind |-> IF llmOk THEN "return" ELSE "raise", invoked |-> TRUE,
          prompt |-> Take(content, PromptLimit),
          val |-> IF llmOk THEN ModelText ELSE <<>>]

\* -------------------------------------------------------------- json.dumps
IsStr(v) == DOMAIN v = {"str"}
IsInt(v) == DOMAIN v = {"int"}
IsList(v) == DOMAIN v = {"list"}

\* insertion order of the keys of the dict literals in the scrapers
KeyOrder == <<"title", "headers", "all_links", "text", "tag", "links",
              "scripts", "error">>

Keys(d) == SelectSeq(KeyOrder, LAMBDA k : k \in DOMAIN d)

RECURSIVE Escape(_)
Escape(s) ==
    IF s = <<>> THEN <<>>
    ELSE (IF Head(s) = QUOTE THEN <<BACKSLASH, QUOTE>>
          ELSE IF Head(s) = BACKSLASH THEN <<BACKSLASH, BACKSLASH>>
          ELSE IF Head(s) = NEWLINE THEN <<BACKSLASH, "n">>
          ELSE <<Head(s)>>) \o Escape(Tail(s))

JsonString(s) == <<QUOTE>> \o Escape(s) \o <<QUOTE>>

RECURSIVE Indent(_)
Indent(depth) ==
    IF depth = 0 THEN <<NEWLINE>> ELSE Indent(depth - 1) \o <<"  ">>

RECURSIVE JsonEnc(_, _), JsonItems(_, _), JsonMembers(_, _, _)
\* the elements of a non-empty list, one per line
JsonItems(xs, depth) ==
    Indent(depth) \o JsonEnc(Head(xs), depth)
    \o (IF Len(xs) = 1 THEN <<>> ELSE <<",">> \o JsonItems(Tail(xs), depth))

\* the members of a non-empty dict, one per line
JsonMembers(d, ks, depth) ==
    Indent(depth) \o JsonString(<<Head(ks)>>) \o <<": ">>
    \o JsonEnc(d[Head(ks)], depth)
    \o (IF Len(ks) = 1 THEN <<>>
        ELSE <<",">> \o JsonMembers(d, Tail(ks), depth))

\* json.dumps(value, indent=2)
JsonEnc(v, depth) ==
    IF IsStr(v) THEN JsonString(v.str)
    ELSE IF IsInt(v) THEN <<ToString(v.int)>>
    ELSE IF IsList(v)
    THEN IF v.list = <<>> THEN <<"[]">>
         ELSE <<"[">> \o JsonItems(v.list, depth + 1)
              \o Indent(depth) \o <<"]">>
    ELSE IF Keys(v) = <<>> THEN <<"{}">>
         ELSE <<"{">> \o JsonMembers(v, Keys(v), depth + 1)
              \o Indent(depth) \o <<"}">>

json_dumps(v) == JsonEnc(v, 0)

\* ---------------------------------------------------------- results column
NoRender == [shown |-> "nothing", tip |-> FALSE, reads |-> {},
             keyError |-> FALSE, offered |-> FALSE, data |-> <<>>,
             file_name |-> "", mime |-> ""]

\* keys the view of each tool subscripts in the stored result
ViewReads(t) == IF t = "BeautifulSoup" THEN {"headers", "all_links"} ELSE {}

Results(ss, t) ==
    IF "scraping_result" \notin DOMAIN ss THEN NoRender
    ELSE LET r == ss.scraping_result
         IN  IF "error" \in DOMAIN r
             THEN [NoRender EXCEPT !.shown = "error",
                                   !.reads = {"error"},
                                   !.tip = Contains(r.error.str, "403")]
             ELSE IF ~(ViewReads(t) \subseteq DOMAIN r)
             THEN [NoRender EXCEPT !.shown = "result",
                                   !.reads = ViewReads(t),
                                   !.keyError = TRUE]
             ELSE [NoRender EXCEPT !.shown = "result",
                                   !.reads = ViewReads(t),
                                   !.offered = TRUE,
                                   !.data = json_dumps(r),
                                   !.file_name = "scraping_report.json",
                                   !.mime = "application/json"]

\* ------------------------------------------------------------------ script
Min(a, b) == IF a < b THEN a ELSE b

\* browser instances launched and not yet sent quit() after a call
Leaked(launched, quits) == Min(MaxOpen, openBrowsers + launched - quits)

Init ==
    /\ url = "https://example.com"
    /\ tool = "BeautifulSoup"
    /\ ai_enabled = TRUE
    /\ session_state = <<>>
    /\ pc = "idle"
    /\ event = "none"
    /\ failure = "none"
    /\ fetched = NoFetch
    /\ advice = NoAdvice
    /\ scraped = NoScrape
    /\ rendered = NoRender
    /\ openBrowsers = 0

\* a widget interaction reruns the script with the button not pressed
Rerun ==
    /\ pc' = "render"
    /\ event' = "rerun"
    /\ failure' = "none"
    /\ fetched' = NoFetch
    /\ advice' = NoAdvice
    /\ scraped' = NoScrape
    /\ rendered' = NoRender
    /\ UNCHANGED <<session_state, openBrowsers>>

SetUrl ==
    /\ pc = "idle"
    /\ \E u \in Urls \ {url} : url' = u
    /\ Rerun
    /\ UNCHANGED <<tool, ai_enabled>>

SetTool ==
    /\ pc = "idle"
    /\ \E t \in Tools \ {tool} : tool' = t
    /\ Rerun
    /\ UNCHANGED <<url, ai_enabled>>

SetAi ==
    /\ pc = "idle"
    /\ ai_enabled' = ~ai_enabled
    /\ Rerun
    /\ UNCHANGED <<url, tool>>

\* st.button("Analyze Page") pressed
ClickAnalyze ==
    /\ pc = "idle"
    /\ pc' = "fetch"
    /\ event' = "analyze"
    /\ failure' = "none"
    /\ fetched' = NoFetch
    /\ advice' = NoAdvice
    /\ scraped' = NoScrape
    /\ rendered' = NoRender
    /\ UNCHANGED <<url, tool, ai_enabled, session_state, openBrowsers>>

\* content = get_page_content(url)
Fetch ==
    /\ pc = "fetch"
    /\ \E d \in DirectEnvs, b \in BrowserEnvs :
         LET f == get_page_content(url, d, b)
         IN  /\ fetched' = f
             /\ openBrowsers' = Leaked(f.sf.launched, f.sf.quits)
             /\ pc' = IF f.kind = "raise" THEN "idle" ELSE "advise"
             /\ failure' = IF f.kind = "raise" THEN "fetch" ELSE "none"
    /\ UNCHANGED <<url, tool, ai_enabled, session_state, event, advice,
                   scraped, rendered>>

\* if ai_enabled and content and not content.startswith("Error:")
AdviceWanted ==
    /\ ai_enabled
    /\ fetched.val # <<>>
    /\ ~StartsWith(fetched.val, ErrorTag)

AdviseInvoke ==
    /\ pc = "advise"
    /\ AdviceWanted
    /\ \E llmOk \in BOOLEAN :
         LET q == generate_ai_questions(fetched.val, llmOk)
         IN  /\ advice' = q
             /\ pc' = IF q.kind = "raise" THEN "idle" ELSE "scrape"
             /\ failure' = IF q.kind = "raise" THEN "advise" ELSE "none"
    /\ UNCHANGED <<url, tool, ai_enabled, session_state, event, fetched,
                   scraped, rendered, openBrowsers>>

AdviseSkip ==
    /\ pc = "advise"
    /\ ~AdviceWanted
    /\ pc' = "scrape"
    /\ UNCHANGED <<url, tool, ai_enabled, session_state, event, failure,
                   fetched, advice, scraped, rendered, openBrowsers>>

\* result = <scraper>(url); st.session_state.scraping_result = result
Store(r) ==
    /\ scraped' = r
    /\ openBrowsers' = Leaked(r.launched, r.quits)
    /\ IF r.kind = "raise"
       THEN /\ pc' = "idle"
            /\ failure' = "scrape"
            /\ UNCHANGED session_state
       ELSE /\ pc' = "render"
            /\ failure' = "none"
            /\ session_state' = [scraping_result |-> r.result]
    /\ UNCHANGED <<url, tool, ai_enabled, event, fetched, advice, rendered>>

ScrapeBeautifulSoup ==
    /\ pc = "scrape"
    /\ tool = "BeautifulSoup"
    /\ \E d \in DirectEnvs, b \in BrowserEnvs, parseOk \in BOOLEAN :
         Store(bs4_scraper(url, d, b, parseOk))

ScrapeSelenium ==
    /\ pc = "scrape"
    /\ tool = "Selenium"
    /\ \E e \in ScraperEnvs : Store(selenium_scraper(url, e))

ScrapeScrapy ==
    /\ pc = "scrape"
    /\ tool = "Scrapy"
    /\ \E e \in ScrapyEnvs : Store(scrapy_scraper(url, e))

\* with col2: ...
Render ==
    /\ pc = "render"
    /\ rendered' = Results(session_state, tool)
    /\ failure' = IF rendered'.keyError THEN "render" ELSE "none"
    /\ pc' = "idle"
    /\ UNCHANGED <<url, tool, ai_enabled, session_state, event, fetched,
                   advice, scraped, openBrowsers>>

Next ==
    \/ SetUrl
    \/ SetTool
    \/ SetAi
    \/ ClickAnalyze
    \/ Fetch
    \/ AdviseInvoke
    \/ AdviseSkip
    \/ ScrapeBeautifulSoup
    \/ ScrapeSelenium
    \/ ScrapeScrapy
    \/ Render

Spec == Init /\ [][Next]_vars

\* ================================================================ properties
\* the get_page_content calls of the current script run
FetchCalls == {f \in {fetched, scraped.fetch} : f.kind # "none"}

HasResult == "scraping_result" \in DOMAIN session_state

\* C1: get_page_content never raises to its caller: every call returns a
\* string, whatever the direct request and the browser fallback do.
C1_NeverRaises == \A f \in FetchCalls : f.kind = "return"

C3_FetchErrorPropagates ==
    (scraped.by = "BeautifulSoup" /\ scraped.fetch.kind = "return"
        /\ scraped.fetch.failed)
    => /\ scraped.kind = "return"
       /\ scraped.result = [error |-> PyStr(scraped.fetch.val)]
       /\ ~scraped.parsed

C3_Witness ==
    /\ scraped.by = "BeautifulSoup"
    /\ scraped.fetch.status = 403
    /\ scraped.fetch.failed
    /\ scraped.result = [error |-> PyStr(SeleniumErrorPrefix \o WebDriverText)]
    /\ HasResult
    /\ session_state.scraping_result = scraped.result

\* C4: content that stands for a fetch error, from the direct request or
\* from the browser fallback, never reaches the language model: the analyze
\* run does not invoke it, and generate_ai_questions on that content returns
\* the skip explanation echoing the error without invoking it.
C4_FetchErrorSkipsAdvice ==
    (fetched.kind = "return" /\ fetched.failed)
    => /\ ~advice.invoked
       /\ \A llmOk \in BOOLEAN :
            LET q == generate_ai_questions(fetched.val, llmOk)
            IN  /\ ~q.invoked
                /\ q.kind = "return"
                /\ q.val = SkipPrefix \o fetched.val

RECURSIVE Unescape(_)
Unescape(s) ==
    IF s = <<>> THEN <<>>
    ELSE IF Head(s) = BACKSLASH /\ Len(s) >= 2
    THEN <<IF s[2] = "n" THEN NEWLINE ELSE s[2]>> \o Unescape(Tail(Tail(s)))
    ELSE <<Head(s)>> \o Unescape(Tail(s))

\* json.loads of a document holding one object with the single key error
JsonDecodeErrorObject(doc) ==
    LET open  == <<"{", NEWLINE, "  ", QUOTE, "error", QUOTE, ": ", QUOTE>>
        close == <<QUOTE, NEWLINE, "}">>
        n     == Len(doc)
    IN  IF /\ n >= Len(open) + Len(close)
           /\ SubSeq(doc, 1, Len(open)) = open
           /\ SubSeq(doc, n - Len(close) + 1, n) = close
        THEN [error |->
                PyStr(Unescape(SubSeq(doc, Len(open) + 1, n - Len(close))))]
        ELSE [undecodable |-> TRUE]

\* C5: whenever the results column shows a stored ErrorResult, it offers
\* the scraping_report.json download, and decoding the document gives an
\* object with the single key error holding the original message.
C5_ErrorExportRoundTrips ==
    (HasResult /\ rendered.shown = "error")
    => /\ rendered.offered
       /\ rendered.file_name = "scraping_report.json"
       /\ JsonDecodeErrorObject(rendered.data) = session_state.scraping_result

\* C6: the results column reads only keys that exist in the stored result,
\* after any sequence of analyze runs and selector changes.
C6_ViewReadsExistingFields ==
    HasResult
    => /\ rendered.reads \subseteq DOMAIN session_state.scraping_result
       /\ ~rendered.keyError

\* C7: every browser instance launched by selenium_fetch or
\* selenium_scraper has had quit() called on it when the call ends, on
\* every exit path, so no launched instance is left open between calls;
\* selenium_scraper launches an instance of its own whatever the fetcher
\* did before it.
C7_BrowsersShutDown ==
    /\ openBrowsers = 0
    /\ \A f \in FetchCalls : f.sf.launched = f.sf.quits
    /\ scraped.launched = scraped.quits
    /\ (scraped.by = "Selenium" /\ scraped.kind = "return"
          /\ "title" \in DOMAIN scraped.result)
       => scraped.launched = 1

C7_Witness ==
    /\ openBrowsers = 0
    /\ fetched.sf.launched = 1
    /\ fetched.sf.failed
    /\ scraped.by = "Selenium"
    /\ scraped.launched = 1
    /\ scraped.quits = 1
    /\ scraped.result = [error |-> PyStr(NoSuchElementText)]

\* C8: when an analyze run has ended, the session slot holds the result of
\* that run's scraper, whatever happened in the fetch and advisory steps.
C8_RunOverwritesSlot ==
    (event = "analyze" /\ pc = "idle")
    => /\ HasResult
       /\ scraped.kind = "return"
       /\ session_state.scraping_result = scraped.result

\* C9: scrapy_scraper runs a crawl whose only start URL is the given url,
\* returns a payload unless the crawl framework reported a failure, and
\* leaves no scratch file behind.
C9_CrawlRunsOnUrl ==
    scraped.by = "Scrapy"
    => /\ scraped.fileCreated => scraped.crawlRan \/ scraped.frameworkFailed
       /\ scraped.crawlRan => scraped.startUrls = {url}
       /\ (scraped.fileCreated /\ ~scraped.frameworkFailed)
            => "error" \notin DOMAIN scraped.result
       /\ ~scraped.fileExists

\* C10: a fetch counts as an error only when it failed: after a direct
\* request that succeeded, whatever the body, bs4_scraper runs the parser
\* on the body and returns no error key unless the parser itself raised,
\* and the analyze run with suggestions enabled passes a non-empty body to
\* the language model.
C10_SuccessIsNotAnError ==
    /\ (scraped.by = "BeautifulSoup" /\ scraped.fetch.status = 200)
       => /\ ~scraped.fetch.failed
          /\ scraped.parsed
          /\ "error" \in DOMAIN scraped.result
               => scraped.result = [error |-> PyStr(ParserText)]
    /\ (pc = "scrape" /\ ai_enabled /\ fetched.status = 200
          /\ fetched.val # <<>>)
       => advice.invoked

====
